---- MODULE Spec2Model ----
(***************************************************************************)
(* Model of the notebook "Post price concession changes.py": the batch     *)
(* pipeline that turns sparse price-concession records into concession     *)
(* episodes, attaches rolling Drug Tariff prices before and after each     *)
(* episode and multiplies the price difference by rolling quantities.      *)
(*                                                                         *)
(* A data frame is a sequence of records (its rows, in row order).  A      *)
(* month is an integer (months since an epoch): every date of the          *)
(* notebook is the first day of a month, so pd.DateOffset(months=k) is     *)
(* integer addition.  A float64 is an exact rational or one of NaN, +inf,  *)
(* -inf; pandas' null is NaN.  One action is one notebook cell.            *)
(***************************************************************************)
EXTENDS Integers, Sequences, FiniteSets

VARIABLES pc, dates_df, dates_cons_df, max_date, pc_summary_df,
          tariff_df, dates_df_merge, rx_df, rx_df_merge, rx_sum_df

vars == <<pc, dates_df, dates_cons_df, max_date, pc_summary_df,
          tariff_df, dates_df_merge, rx_df, rx_df_merge, rx_sum_df>>

(***************************************************************************)
(* Bounds of the model.                                                    *)
(***************************************************************************)
\* vmpp ids are 1..NumDrugs
NumDrugs == 2
\* concession months are FirstMonth..FirstMonth + NumMonths - 1
NumMonths == 7
\* at most MaxRecords concession records in the episode specification
MaxRecords == 4
\* at most MaxRows price rows in the rolling-price specification
MaxRows == 5

\* First concession month: the tariff series may start three months earlier.
FirstMonth == 4

\* Null of a column that is not a float (NaN of an id column, NaT of a date).
NA == 0

Drugs == 1..NumDrugs
Months == FirstMonth..(FirstMonth + NumMonths - 1)

(***************************************************************************)
(* float64 values: exact rationals in lowest terms, NaN, +inf and -inf.    *)
(***************************************************************************)
Abs(x) == IF x < 0 THEN -x ELSE x

RECURSIVE GCD(_, _)
GCD(a, b) == IF b = 0 THEN a ELSE GCD(b, a % b)

NaN == [k |-> "nan", n |-> 0, d |-> 1]

Inf(s) == [k |-> "inf", n |-> s, d |-> 0]

\* The rational n/d, d # 0, in lowest terms with a positive denominator.
Num(n, d) ==
    LET g == GCD(Abs(n), Abs(d))
        s == IF d < 0 THEN -1 ELSE 1
    IN [k |-> "num", n |-> (s * n) \div g, d |-> (s * d) \div g]

IsNull(x) == x.k = "nan"

Sign(x) == IF x.n > 0 THEN 1 ELSE IF x.n < 0 THEN -1 ELSE 0

FNeg(x) == IF x.k = "nan" THEN NaN
           ELSE IF x.k = "inf" THEN Inf(-x.n)
           ELSE Num(-x.n, x.d)

\* IEEE addition: NaN propagates, inf + (-inf) is NaN.
FAdd(x, y) ==
    IF x.k = "nan" \/ y.k = "nan" THEN NaN
    ELSE IF x.k = "inf" /\ y.k = "inf" THEN (IF x.n = y.n THEN x ELSE NaN)
    ELSE IF x.k = "inf" THEN x
    ELSE IF y.k = "inf" THEN y
    ELSE Num(x.n * y.d + y.n * x.d, x.d * y.d)

FSub(x, y) == FAdd(x, FNeg(y))

\* IEEE multiplication: 0 * inf is NaN.
FMul(x, y) ==
    IF x.k = "nan" \/ y.k = "nan" THEN NaN
    ELSE IF x.k = "inf" \/ y.k = "inf"
         THEN (IF Sign(x) = 0 \/ Sign(y) = 0 THEN NaN ELSE Inf(Sign(x) * Sign(y)))
    ELSE Num(x.n * y.n, x.d * y.d)

\* IEEE division as numpy does it on float64 columns: x/0 is +-inf, 0/0 is
\* NaN, and nothing is raised.  (Zeros of the model are +0.0.)
FDiv(x, y) ==
    IF x.k = "nan" \/ y.k = "nan" THEN NaN
    ELSE IF x.k = "inf" THEN (IF y.k = "inf" THEN NaN
                              ELSE Inf(IF Sign(y) < 0 THEN -x.n ELSE x.n))
    ELSE IF y.k = "inf" THEN Num(0, 1)
    ELSE IF y.n = 0 THEN (IF x.n = 0 THEN NaN ELSE Inf(Sign(x)))
    ELSE Num(x.n * y.d, x.d * y.n)

\* x > 0 on a float column (False for NaN).
FPositive(x) == x.k # "nan" /\ x.n > 0

(***************************************************************************)
(* Sequence helpers.                                                       *)
(***************************************************************************)
Range(s) == {s[i] : i \in 1..Len(s)}

SetMin(S) == CHOOSE x \in S : \A y \in S : x <= y

SetMax(S) == CHOOSE x \in S : \A y \in S : x >= y

\* The elements of a set of integers in ascending order.
RECURSIVE SortedSeq(_)
SortedSeq(S) == IF S = {} THEN <<>>
                ELSE LET m == SetMin(S) IN <<m>> \o SortedSeq(S \ {m})

\* The indices I ordered by key[i], ties in index order (a stable sort:
\* numpy's quicksort is an insertion sort below 17 elements).
RECURSIVE OrderIdx(_, _)
OrderIdx(I, key) ==
    IF I = {} THEN <<>>
    ELSE LET i == CHOOSE i \in I : \A j \in I :
                      key[i] < key[j] \/ (key[i] = key[j] /\ i <= j)
         IN <<i>> \o OrderIdx(I \ {i}, key)

\* df.sort_values / sort_index by an integer key per row.
SortRows(df, key) ==
    LET p == OrderIdx(1..Len(df), key)
    IN [n \in 1..Len(df) |-> df[p[n]]]

\* The concatenation of the sequences f[1], ..., f[n].
RECURSIVE Concat(_, _)
Concat(f, n) == IF n = 0 THEN <<>> ELSE Concat(f, n - 1) \o f[n]

\* A key for two integer columns, the first the major one.
Key2(a, b) == a * 1000 + b

(***************************************************************************)
(* Cell "Obtain Price Concession data": SELECT DISTINCT vmpp, date, 1,     *)
(* sorted by month then vmpp.                                              *)
(***************************************************************************)
ConcessionRows(S) ==
    LET keys == SortedSeq({Key2(c[2], c[1]) : c \in S})
    IN [i \in 1..Len(keys) |->
          [vmpp |-> keys[i] % 1000, month |-> keys[i] \div 1000,
           concession_bool |-> 1]]

(***************************************************************************)
(* Cell "unstack": set_index(['month','vmpp']).unstack().asfreq('MS')      *)
(* .fillna(0).stack().sort_index(level=1).reset_index()                    *)
(***************************************************************************)
\* A month x vmpp matrix: the sorted index, the sorted columns, the cells.
Unstack(df) ==
    LET idx  == SortedSeq({r.month : r \in Range(df)})
        cols == SortedSeq({r.vmpp : r \in Range(df)})
    IN [index |-> idx, columns |-> cols,
        cell |-> [m \in Range(idx), v \in Range(cols) |->
                    IF \E i \in 1..Len(df) : df[i].month = m /\ df[i].vmpp = v
                    THEN Num(1, 1) ELSE NaN]]

\* A faulty asfreq that keeps the index as it is, months without a record
\* missing.
AsFreqMS_NoReindex(mat) == mat

\* asfreq('MS'): reindex to every month start from the first index value to
\* the last; a month that was not in the index is a row of NaN.
AsFreqMS(mat) ==
    LET lo  == mat.index[1]
        hi  == mat.index[Len(mat.index)]
        idx == [i \in 1..(hi - lo + 1) |-> lo + i - 1]
    IN [index |-> idx, columns |-> mat.columns,
        cell |-> [m \in Range(idx), v \in Range(mat.columns) |->
                    IF m \in Range(mat.index) THEN mat.cell[m, v] ELSE NaN]]

FillNa0(mat) ==
    [mat EXCEPT !.cell = [m \in Range(mat.index), v \in Range(mat.columns) |->
                            IF IsNull(mat.cell[m, v]) THEN Num(0, 1)
                            ELSE mat.cell[m, v]]]

\* stack(): one row per non-null cell, by index value and then by column.
Stack(mat) ==
    LET rowOf(i) ==
          LET m == mat.index[i]
              present == SelectSeq(mat.columns,
                                   LAMBDA v : ~IsNull(mat.cell[m, v]))
          IN [j \in 1..Len(present) |->
                [month |-> m, vmpp |-> present[j],
                 concession_bool |-> mat.cell[m, present[j]]]]
    IN Concat([i \in 1..Len(mat.index) |-> rowOf(i)], Len(mat.index))

\* sort_index(level=1): by vmpp, the remaining level (month) after it.
SortIndexLevel1(df) ==
    SortRows(df, [i \in 1..Len(df) |-> Key2(df[i].vmpp, df[i].month)])

DenseTimeline(df) == SortIndexLevel1(Stack(FillNa0(AsFreqMS(Unstack(df)))))

(***************************************************************************)
(* Cell "Find the start and end dates of concessions".                     *)
(***************************************************************************)
\* The measurement window of the episode filter, in months.
MeasurementWindow == 3

MaxDate(df) == SetMax({r.month : r \in Range(df)}) - MeasurementWindow

\* concession_bool != concession_bool.shift(): the column is compared with
\* itself moved one row down the whole frame; the first row meets NaN, and
\* NaN differs from everything.
Changed(df) ==
    [i \in 1..Len(df) |->
        IF i = 1 THEN TRUE
        ELSE df[i].concession_bool # df[i - 1].concession_bool]

\* .cumsum() of the booleans b[1..n]: the running count of True, which is
\* the number of the block each row belongs to.
RECURSIVE CumSum(_, _)
CumSum(b, n) ==
    IF n = 0 THEN <<>>
    ELSE LET h == CumSum(b, n - 1)
         IN Append(h, (IF n = 1 THEN 0 ELSE h[n - 1]) + (IF b[n] THEN 1 ELSE 0))

BlockOf(df) == CumSum(Changed(df), Len(df))

\* assign(Consecutive = ...groupby(block).transform('size')).
AssignConsecutive(df) ==
    LET blk == BlockOf(df)
    IN [i \in 1..Len(df) |->
          [vmpp |-> df[i].vmpp, month |-> df[i].month,
           concession_bool |-> df[i].concession_bool,
           Consecutive |-> Cardinality({j \in 1..Len(df) : blk[j] = blk[i]})]]

QueryConcession(df) == SelectSeq(df, LAMBDA r : FPositive(r.concession_bool))

\* groupby(['vmpp','Consecutive']).aggregate(first, last).reset_index():
\* one row per distinct key, in key order; first and last in row order.
GroupFirstLast(df) ==
    LET keys == SortedSeq({Key2(r.vmpp, r.Consecutive) : r \in Range(df)})
        grp(k) == SelectSeq(df, LAMBDA r : Key2(r.vmpp, r.Consecutive) = k)
    IN [i \in 1..Len(keys) |->
          LET g == grp(keys[i])
          IN [vmpp |-> g[1].vmpp, Consecutive |-> g[1].Consecutive,
              first_month |-> g[1].month, last_month |-> g[Len(g)].month]]

\* query("last_month < @max_date")
QueryBeforeMaxDate(df, md) == SelectSeq(df, LAMBDA r : r.last_month < md)

\* The concession runs before the filter.
RunGroups(df) == GroupFirstLast(QueryConcession(AssignConsecutive(df)))

PcSummary(df, md) == QueryBeforeMaxDate(RunGroups(df), md)

(***************************************************************************)
(* Cell "get drug tariff price data": one row per price observation, the   *)
(* quantity per pack made numeric.  (The name column nm takes no part in   *)
(* any computation and is left out.)                                       *)
(***************************************************************************)
TariffRow(b, u, v, t, p) ==
    [bnf_code |-> b, unit_qty |-> Num(u, 1), vmpp |-> v, date |-> t,
     price_pence |-> p]

\* The price of drug v in month t: 100 * (v - 1) pence up to the month
\* before the first concession month, 10 pence more every month after it
\* (drug 1 is priced 0 pence before the first concession month).
PricePence(v, t) ==
    100 * (v - 1) + (IF t < FirstMonth THEN 0 ELSE 10 * (t - FirstMonth + 1))

(***************************************************************************)
(* Cell "calculate the average drug tariff price": the shifted date        *)
(* columns, the rolling price, the two left merges, perc_difference and    *)
(* rx_merge_date.                                                          *)
(***************************************************************************)
RollingWindow == 3

MinPeriods == 3

PreShift == 1

PostShift == 3

RxMergeShift == 1

\* A faulty pre_month that is the date itself.
PreMonth_NoShift(t) == t

\* date + pd.DateOffset(months=1)
PreMonth(t) == t + PreShift

\* date + pd.DateOffset(months=-3)
PostMonth(t) == t - PostShift

\* The sum of x[a..b].
RECURSIVE SumRange(_, _, _)
SumRange(x, a, b) == IF a > b THEN 0 ELSE x[b] + SumRange(x, a, b - 1)

\* x.rolling(3, 3).mean() on a series of integers: the mean of the window
\* of the last RollingWindow observations, NaN while the window holds fewer
\* than MinPeriods observations.
RollingMean(x) ==
    [k \in 1..Len(x) |->
        LET a == IF k - RollingWindow + 1 < 1 THEN 1 ELSE k - RollingWindow + 1
        IN IF k - a + 1 < MinPeriods THEN NaN
           ELSE Num(SumRange(x, a, k), k - a + 1)]

\* A faulty grouping that puts every row of the table in the group.
GroupRows_AllRows(df, v) == [i \in 1..Len(df) |-> i]

\* The row numbers of df whose vmpp is v, in row order (a groupby group).
GroupRows(df, v) ==
    SelectSeq([i \in 1..Len(df) |-> i], LAMBDA i : df[i].vmpp = v)

\* groupby('vmpp')['price_pence'].transform(rolling mean): each group's
\* series, in row order, is rolled and written back to the group's rows.
GroupRollingMean(df) ==
    [i \in 1..Len(df) |->
        LET g == GroupRows(df, df[i].vmpp)
            x == [k \in 1..Len(g) |-> df[g[k]].price_pence]
            k == CHOOSE k \in 1..Len(g) : g[k] = i
        IN RollingMean(x)[k]]

AddPriceColumns(df) ==
    LET roll == GroupRollingMean(df)
    IN [i \in 1..Len(df) |->
          [bnf_code |-> df[i].bnf_code, unit_qty |-> df[i].unit_qty,
           vmpp |-> df[i].vmpp, date |-> df[i].date,
           price_pence |-> df[i].price_pence,
           pre_month |-> PreMonth(df[i].date),
           post_month |-> PostMonth(df[i].date),
           price_3_month |-> roll[i]]]

\* pd.merge(pc_summary_df, prices, how='left', on vmpp and
\* first_month = pre_month), 3_month_price renamed pre_pc_price: every
\* episode, once per matching price row, or once with nulls.
MergePre(left, right) ==
    LET rowsOf(i) ==
          LET e == left[i]
              m == SelectSeq(right, LAMBDA r : r.vmpp = e.vmpp
                                               /\ r.pre_month = e.first_month)
          IN IF m = <<>>
             THEN <<[vmpp |-> e.vmpp, Consecutive |-> e.Consecutive,
                     first_month |-> e.first_month, last_month |-> e.last_month,
                     bnf_code |-> NA, unit_qty |-> NaN, pre_pc_price |-> NaN]>>
             ELSE [j \in 1..Len(m) |->
                    [vmpp |-> e.vmpp, Consecutive |-> e.Consecutive,
                     first_month |-> e.first_month, last_month |-> e.last_month,
                     bnf_code |-> m[j].bnf_code, unit_qty |-> m[j].unit_qty,
                     pre_pc_price |-> m[j].price_3_month]]
    IN Concat([i \in 1..Len(left) |-> rowsOf(i)], Len(left))

\* The second left merge, on vmpp and last_month = post_month,
\* 3_month_price renamed post_pc_price.
MergePost(left, right) ==
    LET rowsOf(i) ==
          LET e == left[i]
              m == SelectSeq(right, LAMBDA r : r.vmpp = e.vmpp
                                               /\ r.post_month = e.last_month)
              with(p) == [vmpp |-> e.vmpp, Consecutive |-> e.Consecutive,
                          first_month |-> e.first_month,
                          last_month |-> e.last_month,
                          bnf_code |-> e.bnf_code, unit_qty |-> e.unit_qty,
                          pre_pc_price |-> e.pre_pc_price, post_pc_price |-> p]
          IN IF m = <<>> THEN <<with(NaN)>>
             ELSE [j \in 1..Len(m) |-> with(m[j].price_3_month)]
    IN Concat([i \in 1..Len(left) |-> rowsOf(i)], Len(left))

\* sort_values(by=['vmpp','first_month'])
SortByVmppFirstMonth(df) ==
    SortRows(df, [i \in 1..Len(df) |-> Key2(df[i].vmpp, df[i].first_month)])

\* post_pc_price / pre_pc_price - 1
PercDifference(post, pre) == FSub(FDiv(post, pre), Num(1, 1))

\* A faulty merge date four months after the episode.
RxMergeDate_PlusFour(last_month) == last_month + 4

\* last_month + pd.DateOffset(months=1)
RxMergeDate(last_month) == last_month + RxMergeShift

AssignDerived(df) ==
    [i \in 1..Len(df) |->
        [vmpp |-> df[i].vmpp, Consecutive |-> df[i].Consecutive,
         first_month |-> df[i].first_month, last_month |-> df[i].last_month,
         bnf_code |-> df[i].bnf_code, unit_qty |-> df[i].unit_qty,
         pre_pc_price |-> df[i].pre_pc_price,
         post_pc_price |-> df[i].post_pc_price,
         perc_difference |->
             PercDifference(df[i].post_pc_price, df[i].pre_pc_price),
         rx_merge_date |-> RxMergeDate(df[i].last_month)]]

\* sort_values(by=['last_month'], ascending=False)
SortByLastMonthDesc(df) ==
    SortRows(df, [i \in 1..Len(df) |-> -df[i].last_month])

DatesDfMerge(episodes, prices) ==
    SortByLastMonthDesc(AssignDerived(SortByVmppFirstMonth(
        MergePost(MergePre(episodes, prices), prices))))

(***************************************************************************)
(* Cell "Get quantity data from BQ": the rolling quantities, cut to the    *)
(* windows that end inside the data.                                       *)
(***************************************************************************)
RxTrim == 2

\* rx_df[rx_df['date_3m_start'] <= max(rx_df['date_3m_start']) - 2 months]
TruncateRx(df) ==
    LET last == SetMax({r.date_3m_start : r \in Range(df)})
    IN SelectSeq(df, LAMBDA r : r.date_3m_start <= last - RxTrim)

(***************************************************************************)
(* Cell "Calculate impact": the right merge and the additional cost.       *)
(***************************************************************************)
\* A faulty cost that takes a null price for 0.
AdditionalCost_FillZero(qty, unit_qty, post, pre) ==
    FMul(FMul(Num(1, 100), FDiv(Num(qty, 1), unit_qty)),
         FSub(IF IsNull(post) THEN Num(0, 1) ELSE post,
              IF IsNull(pre) THEN Num(0, 1) ELSE pre))

\* 0.01*(roll_3m_quantity/unit_qty)*(post_pc_price-pre_pc_price)
AdditionalCost(qty, unit_qty, post, pre) ==
    FMul(FMul(Num(1, 100), FDiv(Num(qty, 1), unit_qty)), FSub(post, pre))

\* A faulty merge that is an inner join: quantity rows without an episode
\* are dropped.
MergeRight_Inner(left, right) ==
    LET rowsOf(i) ==
          LET q == right[i]
              m == SelectSeq(left, LAMBDA e : e.bnf_code = q.bnf_code
                                   /\ e.rx_merge_date = q.date_3m_start)
          IN [j \in 1..Len(m) |->
                [vmpp |-> m[j].vmpp, Consecutive |-> m[j].Consecutive,
                 first_month |-> m[j].first_month,
                 last_month |-> m[j].last_month,
                 bnf_code |-> q.bnf_code, unit_qty |-> m[j].unit_qty,
                 pre_pc_price |-> m[j].pre_pc_price,
                 post_pc_price |-> m[j].post_pc_price,
                 perc_difference |-> m[j].perc_difference,
                 rx_merge_date |-> m[j].rx_merge_date,
                 date_3m_start |-> q.date_3m_start,
                 roll_3m_quantity |-> q.roll_3m_quantity]]
    IN Concat([i \in 1..Len(right) |-> rowsOf(i)], Len(right))

\* pd.merge(dates_df_merge, rx_df, how='right', on bnf_code and
\* rx_merge_date = date_3m_start): every quantity row, once per matching
\* episode row, or once with nulls on the episode's side.
MergeRight(left, right) ==
    LET rowsOf(i) ==
          LET q == right[i]
              m == SelectSeq(left, LAMBDA e : e.bnf_code = q.bnf_code
                                   /\ e.rx_merge_date = q.date_3m_start)
          IN IF m = <<>>
             THEN <<[vmpp |-> NA, Consecutive |-> NA, first_month |-> NA,
                     last_month |-> NA, bnf_code |-> q.bnf_code,
                     unit_qty |-> NaN, pre_pc_price |-> NaN,
                     post_pc_price |-> NaN, perc_difference |-> NaN,
                     rx_merge_date |-> NA,
                     date_3m_start |-> q.date_3m_start,
                     roll_3m_quantity |-> q.roll_3m_quantity]>>
             ELSE [j \in 1..Len(m) |->
                    [vmpp |-> m[j].vmpp, Consecutive |-> m[j].Consecutive,
                     first_month |-> m[j].first_month,
                     last_month |-> m[j].last_month,
                     bnf_code |-> q.bnf_code, unit_qty |-> m[j].unit_qty,
                     pre_pc_price |-> m[j].pre_pc_price,
                     post_pc_price |-> m[j].post_pc_price,
                     perc_difference |-> m[j].perc_difference,
                     rx_merge_date |-> m[j].rx_merge_date,
                     date_3m_start |-> q.date_3m_start,
                     roll_3m_quantity |-> q.roll_3m_quantity]]
    IN Concat([i \in 1..Len(right) |-> rowsOf(i)], Len(right))

AssignCost(df) ==
    [i \in 1..Len(df) |->
        [vmpp |-> df[i].vmpp, Consecutive |-> df[i].Consecutive,
         first_month |-> df[i].first_month, last_month |-> df[i].last_month,
         bnf_code |-> df[i].bnf_code, unit_qty |-> df[i].unit_qty,
         pre_pc_price |-> df[i].pre_pc_price,
         post_pc_price |-> df[i].post_pc_price,
         perc_difference |-> df[i].perc_difference,
         rx_merge_date |-> df[i].rx_merge_date,
         date_3m_start |-> df[i].date_3m_start,
         roll_3m_quantity |-> df[i].roll_3m_quantity,
         additional_cost_3_m |->
             AdditionalCost(df[i].roll_3m_quantity, df[i].unit_qty,
                            df[i].post_pc_price, df[i].pre_pc_price)]]

RxDfMerge(left, right) == AssignCost(MergeRight(left, right))

(***************************************************************************)
(* Cell "calculate the additional three month costs": the monthly totals.  *)
(***************************************************************************)
\* Series.sum(): the sum of the values that are not null, 0 when none is.
RECURSIVE SumSkipNa(_, _)
SumSkipNa(x, n) ==
    IF n = 0 THEN Num(0, 1)
    ELSE IF IsNull(x[n]) THEN SumSkipNa(x, n - 1)
    ELSE FAdd(SumSkipNa(x, n - 1), x[n])

\* round() of a rational to the nearest integer, halves to even.
RoundHalfEven(n, d) ==
    LET q == n \div d
        r == n % d
    IN IF 2 * r < d THEN q
       ELSE IF 2 * r > d THEN q + 1
       ELSE IF q % 2 = 0 THEN q ELSE q + 1

\* The format "{:,.2f}" after a pound sign: the amount to two decimals, here as the number of
\* hundredths; "inf", "-inf" and "nan" for the values that are no number.
FormatPounds(x) ==
    IF x.k = "nan" THEN [text |-> "nan", hundredths |-> 0]
    ELSE IF x.k = "inf"
         THEN [text |-> IF x.n > 0 THEN "inf" ELSE "-inf", hundredths |-> 0]
    ELSE [text |-> "number", hundredths |-> RoundHalfEven(100 * x.n, x.d)]

\* groupby('date_3m_start')['3_m_additional_cost'].sum().apply(format): one
\* row per month in month order, with the sum and its formatted text.
RxSum(df) ==
    LET ms == SortedSeq({r.date_3m_start : r \in Range(df)})
        grp(m) == SelectSeq(df, LAMBDA r : r.date_3m_start = m)
    IN [i \in 1..Len(ms) |->
          LET g == grp(ms[i])
              t == SumSkipNa([j \in 1..Len(g) |-> g[j].additional_cost_3_m],
                             Len(g))
          IN [date_3m_start |-> ms[i], total |-> t,
              formatted |-> FormatPounds(t)]]

(***************************************************************************)
(* Initial states and actions.                                             *)
(***************************************************************************)
\* The subsets of S of at most k elements.
RECURSIVE SubsetsUpTo(_, _)
SubsetsUpTo(S, k) ==
    IF k = 0 THEN {{}}
    ELSE LET P == SubsetsUpTo(S, k - 1)
         IN P \cup {T \cup {x} : T \in P, x \in S}

InitWith(k, months) ==
    /\ \E S \in SubsetsUpTo(Drugs \X months, k) :
          /\ S # {}
          /\ dates_df = ConcessionRows(S)
    /\ pc = "concessions"
    /\ dates_cons_df = <<>>
    /\ max_date = NA
    /\ pc_summary_df = <<>>
    /\ tariff_df = <<>>
    /\ dates_df_merge = <<>>
    /\ rx_df = <<>>
    /\ rx_df_merge = <<>>
    /\ rx_sum_df = <<>>

InitEpisodes == InitWith(MaxRecords, Months)

Densify ==
    /\ pc = "concessions"
    /\ dates_cons_df' = DenseTimeline(dates_df)
    /\ pc' = "timeline"
    /\ UNCHANGED <<dates_df, max_date, pc_summary_df, tariff_df,
                   dates_df_merge, rx_df, rx_df_merge, rx_sum_df>>

ExtractEpisodes ==
    /\ pc = "timeline"
    /\ max_date' = MaxDate(dates_cons_df)
    /\ pc_summary_df' = PcSummary(dates_cons_df, MaxDate(dates_cons_df))
    /\ pc' = "episodes"
    /\ UNCHANGED <<dates_df, dates_cons_df, tariff_df,
                   dates_df_merge, rx_df, rx_df_merge, rx_sum_df>>

\* The Drug Tariff rows read from the warehouse, for the drugs ds of the
\* concession table: each drug has one row a month from month s to month e,
\* in packs of 28 * v; the drugs share one BNF code or have one each; the
\* rows come by date and then drug, so the drugs' series are interleaved.
TariffTable(ds, s, e, shared) ==
    [i \in 1..((e - s + 1) * Len(ds)) |->
        LET v == ds[((i - 1) % Len(ds)) + 1]
            t == s + ((i - 1) \div Len(ds))
        IN TariffRow(IF shared THEN 1 ELSE v, 28 * v, v, t, PricePence(v, t))]

\* concession months of the whole-pipeline specification are
\* FirstMonth..FirstMonth + JoinMonths - 1
JoinMonths == 6

LastJoinMonth == FirstMonth + JoinMonths - 1

\* The months a tariff series may cover: all the months any episode needs,
\* or a short series that starts late and ends early.
TariffSpans ==
    {<<FirstMonth - 3, LastJoinMonth>>,
     <<FirstMonth - 2, FirstMonth + 3>>,
     <<FirstMonth, LastJoinMonth>>}

ReadTariff ==
    /\ pc = "episodes"
    /\ \E span \in TariffSpans, shared \in BOOLEAN :
          tariff_df' = TariffTable(SortedSeq({r.vmpp : r \in Range(dates_df)}),
                                   span[1], span[2], shared)
    /\ pc' = "tariff"
    /\ UNCHANGED <<dates_df, dates_cons_df, max_date, pc_summary_df,
                   dates_df_merge, rx_df, rx_df_merge, rx_sum_df>>

JoinPrices ==
    /\ pc = "tariff"
    /\ tariff_df' = AddPriceColumns(tariff_df)
    /\ dates_df_merge' = DatesDfMerge(pc_summary_df, tariff_df')
    /\ pc' = "prices"
    /\ UNCHANGED <<dates_df, dates_cons_df, max_date, pc_summary_df,
                   rx_df, rx_df_merge, rx_sum_df>>

\* The rolling quantities read from the warehouse: one row a month and BNF
\* code from month s to month e, latest month first.
RxTable(s, e, codes) ==
    LET cs == SortedSeq(codes)
    IN [i \in 1..((e - s + 1) * Len(cs)) |->
          LET t == e - ((i - 1) \div Len(cs))
              b == cs[((i - 1) % Len(cs)) + 1]
          IN [date_3m_start |-> t, bnf_code |-> b,
              roll_3m_quantity |-> 1000 * b + 100 * (t - s)]]

ReadQuantity ==
    /\ pc = "prices"
    /\ rx_df' = TruncateRx(RxTable(FirstMonth + 1, LastJoinMonth + 2,
                                   {r.bnf_code : r \in Range(tariff_df)}))
    /\ pc' = "quantity"
    /\ UNCHANGED <<dates_df, dates_cons_df, max_date, pc_summary_df,
                   tariff_df, dates_df_merge, rx_df_merge, rx_sum_df>>

CostImpact ==
    /\ pc = "quantity"
    /\ rx_df_merge' = RxDfMerge(dates_df_merge, rx_df)
    /\ pc' = "impact"
    /\ UNCHANGED <<dates_df, dates_cons_df, max_date, pc_summary_df,
                   tariff_df, dates_df_merge, rx_df, rx_sum_df>>

Summarise ==
    /\ pc = "impact"
    /\ rx_sum_df' = RxSum(rx_df_merge)
    /\ pc' = "done"
    /\ UNCHANGED <<dates_df, dates_cons_df, max_date, pc_summary_df,
                   tariff_df, dates_df_merge, rx_df, rx_df_merge>>

\* at most JoinRecords concession records in the whole-pipeline specification
JoinRecords == 3

Init == InitWith(JoinRecords, FirstMonth..LastJoinMonth)

Next ==
    \/ Densify
    \/ ExtractEpisodes
    \/ ReadTariff
    \/ JoinPrices
    \/ ReadQuantity
    \/ CostImpact
    \/ Summarise

Spec == Init /\ [][Next]_vars

NextEpisodes == Densify \/ ExtractEpisodes

SpecEpisodes == InitEpisodes /\ [][NextEpisodes]_vars

\* The price tables of the rolling-price specification: at most MaxRows
\* rows in any interleaving of the drugs, prices from Prices that never
\* fall along the table, each drug's dates one month apart.
Prices == {10, 20, 30, 40}

PriceTable(f) ==
    [i \in 1..Len(f) |->
        TariffRow(f[i][1], 28 * f[i][1], f[i][1],
                  FirstMonth - 4 + Cardinality({j \in 1..i : f[j][1] = f[i][1]}),
                  f[i][2])]

\* The state after the episode cell when every drug has its only concession
\* in the first month (no episode passes the filter), with a price table.
InitRolling ==
    /\ dates_df = ConcessionRows(Drugs \X {FirstMonth})
    /\ dates_cons_df = DenseTimeline(dates_df)
    /\ max_date = MaxDate(dates_cons_df)
    /\ pc_summary_df = PcSummary(dates_cons_df, max_date)
    /\ \E n \in 1..MaxRows : \E f \in [1..n -> Drugs \X Prices] :
          /\ \A i \in 1..(n - 1) : f[i][2] <= f[i + 1][2]
          /\ tariff_df = PriceTable(f)
    /\ pc = "tariff"
    /\ dates_df_merge = <<>>
    /\ rx_df = <<>>
    /\ rx_df_merge = <<>>
    /\ rx_sum_df = <<>>

NextRolling == JoinPrices

SpecRolling == InitRolling /\ [][NextRolling]_vars

(***************************************************************************)
(* Claims about the dense timeline and the episode extractor               *)
(* (specification SpecEpisodes).                                           *)
(***************************************************************************)
InputPairs == {<<r.vmpp, r.month>> : r \in Range(dates_df)}

InputDrugs == {r.vmpp : r \in Range(dates_df)}

InputMonths == {r.month : r \in Range(dates_df)}

\* The rows of the dense timeline for drug v and month m.
TimelineRows(v, m) ==
    {i \in 1..Len(dates_cons_df) :
        dates_cons_df[i].vmpp = v /\ dates_cons_df[i].month = m}

\* The flag of drug v in month m (the timeline has one row for the pair).
Flag(v, m) ==
    dates_cons_df[CHOOSE i \in TimelineRows(v, m) : TRUE].concession_bool

\* C6: the dense timeline has, for every drug of the input, exactly one row
\* for every month from the global minimum to the global maximum observed
\* month and no other row; a pair present in the input has flag 1, an absent
\* pair flag 0; the rows are ordered by drug and then month.
C6_DenseTimeline ==
    pc # "concessions" =>
        LET lo == SetMin(InputMonths)
            hi == SetMax(InputMonths)
        IN /\ \A v \in InputDrugs : \A m \in lo..hi :
                 /\ Cardinality(TimelineRows(v, m)) = 1
                 /\ Flag(v, m) = (IF <<v, m>> \in InputPairs
                                  THEN Num(1, 1) ELSE Num(0, 1))
           /\ \A i \in 1..Len(dates_cons_df) :
                 /\ dates_cons_df[i].vmpp \in InputDrugs
                 /\ dates_cons_df[i].month \in lo..hi
           /\ \A i, j \in 1..Len(dates_cons_df) :
                 i < j =>
                    \/ dates_cons_df[i].vmpp < dates_cons_df[j].vmpp
                    \/ /\ dates_cons_df[i].vmpp = dates_cons_df[j].vmpp
                       /\ dates_cons_df[i].month < dates_cons_df[j].month

\* A timeline of two drugs with a month no record names and a drug absent
\* from a month another drug has.
C6_Witness ==
    /\ pc = "timeline"
    /\ Cardinality(InputDrugs) >= 2
    /\ \E m \in SetMin(InputMonths)..SetMax(InputMonths) : m \notin InputMonths
    /\ \E r \in Range(dates_cons_df) :
          /\ r.month \in InputMonths
          /\ r.concession_bool = Num(0, 1)
    /\ \E r \in Range(dates_cons_df) : r.concession_bool = Num(1, 1)

\* C1: every emitted episode satisfies the Episode invariant: every month of
\* the drug in [first_month, last_month] has the flag true, and the months
\* just before first_month and just after last_month, when the drug's
\* sequence has them, have the flag false.
C1_EpisodeInvariant ==
    pc = "episodes" =>
        \A e \in Range(pc_summary_df) :
            /\ \A m \in e.first_month..e.last_month :
                  Flag(e.vmpp, m) = Num(1, 1)
            /\ e.first_month - 1 >= SetMin(InputMonths) =>
                  Flag(e.vmpp, e.first_month - 1) = Num(0, 1)
            /\ e.last_month + 1 <= SetMax(InputMonths) =>
                  Flag(e.vmpp, e.last_month + 1) = Num(0, 1)

\* C2: the duration of every emitted episode (Consecutive) is the number of
\* months from first_month to last_month inclusive.
C2_RunLength ==
    pc = "episodes" =>
        \A e \in Range(pc_summary_df) :
            e.Consecutive = e.last_month - e.first_month + 1

\* C3: the filter keeps a concession run exactly when last_month + 3 months
\* is not after the latest month of the concession dataset.
C3_FilterKeeps ==
    pc = "episodes" =>
        Range(pc_summary_df) =
            {g \in Range(RunGroups(dates_cons_df)) :
                g.last_month + MeasurementWindow <= SetMax(InputMonths)}

(***************************************************************************)
(* Claim about the rolling price (specification SpecRolling).              *)
(***************************************************************************)
\* The rows of drug v among the first i rows of the price table.
RowsUpTo(v, i) == {j \in 1..i : tariff_df[j].vmpp = v}

\* The prices of drug v in table order.
PriceSeries(v) ==
    LET g == SelectSeq([i \in 1..Len(tariff_df) |-> i],
                       LAMBDA i : tariff_df[i].vmpp = v)
    IN [k \in 1..Len(g) |-> tariff_df[g[k]].price_pence]

RolledSeries(v) ==
    LET g == SelectSeq([i \in 1..Len(tariff_df) |-> i],
                       LAMBDA i : tariff_df[i].vmpp = v)
    IN [k \in 1..Len(g) |-> tariff_df[g[k]].price_3_month]

\* C9: the rolling price is a trailing window of exactly 3 observations per
\* drug: the first 2 rows of a drug are undefined, every later row is the
\* mean of that row's price and the 2 preceding rows of the same drug, and
\* prices [10,20,30,40] give [null,null,20,30].
C9_RollingPerDrug ==
    pc = "prices" =>
        /\ \A i \in 1..Len(tariff_df) :
              LET P == RowsUpTo(tariff_df[i].vmpp, i)
              IN IF Cardinality(P) < 3
                 THEN IsNull(tariff_df[i].price_3_month)
                 ELSE LET j2 == SetMax(P \ {i})
                          j1 == SetMax(P \ {i, j2})
                      IN tariff_df[i].price_3_month =
                            Num(tariff_df[i].price_pence
                                + tariff_df[j2].price_pence
                                + tariff_df[j1].price_pence, 3)
        /\ \A v \in Drugs :
              PriceSeries(v) = <<10, 20, 30, 40>> =>
                 RolledSeries(v) = <<NaN, NaN, Num(20, 1), Num(30, 1)>>

\* A drug with a defined rolling price whose three rows are separated by a
\* row of another drug with another price.
C9_Witness ==
    /\ pc = "prices"
    /\ \E i, j \in 1..Len(tariff_df) :
          /\ j < i
          /\ tariff_df[j].vmpp # tariff_df[i].vmpp
          /\ Cardinality(RowsUpTo(tariff_df[i].vmpp, j)) \in {1, 2}
          /\ Cardinality(RowsUpTo(tariff_df[i].vmpp, i)) = 3
          /\ ~IsNull(tariff_df[i].price_3_month)
          /\ tariff_df[j].price_pence # tariff_df[i].price_pence
          /\ \E k \in RowsUpTo(tariff_df[i].vmpp, i) :
                tariff_df[k].price_pence # tariff_df[j].price_pence
                /\ tariff_df[k].price_pence # tariff_df[i].price_pence

(***************************************************************************)
(* Claims about the joins and the cost (specification Spec).               *)
(***************************************************************************)
Joined == pc \in {"prices", "quantity", "impact", "done"}

Costed == pc \in {"impact", "done"}

HasPrice(v, t) ==
    \E i \in 1..Len(tariff_df) :
        tariff_df[i].vmpp = v /\ tariff_df[i].date = t

PriceAt(v, t) ==
    tariff_df[CHOOSE i \in 1..Len(tariff_df) :
                 tariff_df[i].vmpp = v /\ tariff_df[i].date = t].price_pence

\* The mean of the prices of drug v in the months t, t + 1 and t + 2, null
\* unless the drug has a price in each.
MeanOfThree(v, t) ==
    IF \A k \in 0..2 : HasPrice(v, t + k)
    THEN Num(PriceAt(v, t) + PriceAt(v, t + 1) + PriceAt(v, t + 2), 3)
    ELSE NaN

\* Every drug's price rows are one a month, contiguous, in date order.
OneRowPerMonthInOrder ==
    \A i, j \in 1..Len(tariff_df) :
        (/\ i < j
         /\ tariff_df[i].vmpp = tariff_df[j].vmpp
         /\ \A k \in (i + 1)..(j - 1) : tariff_df[k].vmpp # tariff_df[i].vmpp)
            => tariff_df[j].date = tariff_df[i].date + 1

\* C5: with one price row per month, contiguous and in date order, every
\* episode gets one row, its pre_pc_price the mean of the prices of the
\* months first_month - 3 .. first_month - 1 and its post_pc_price the mean
\* of the prices of the months last_month + 1 .. last_month + 3.
C5_PrePostWindows ==
    (pc = "prices" /\ OneRowPerMonthInOrder) =>
        /\ Len(dates_df_merge) = Len(pc_summary_df)
        /\ \A i \in 1..Len(pc_summary_df) :
              \E j \in 1..Len(dates_df_merge) :
                 /\ dates_df_merge[j].vmpp = pc_summary_df[i].vmpp
                 /\ dates_df_merge[j].first_month = pc_summary_df[i].first_month
                 /\ dates_df_merge[j].last_month = pc_summary_df[i].last_month
        /\ \A j \in 1..Len(dates_df_merge) :
              LET r == dates_df_merge[j]
              IN /\ r.pre_pc_price = MeanOfThree(r.vmpp, r.first_month - 3)
                 /\ r.post_pc_price = MeanOfThree(r.vmpp, r.last_month + 1)

\* An episode of more than one month with both prices, the two different.
C5_Witness ==
    /\ pc = "prices"
    /\ \E r \in Range(dates_df_merge) :
          /\ r.last_month > r.first_month
          /\ ~IsNull(r.pre_pc_price)
          /\ ~IsNull(r.post_pc_price)
          /\ r.pre_pc_price # r.post_pc_price

\* A row of the cost table that an episode matched.
Matched(r) == r.vmpp # NA

\* C4 as claimed: the anchor month joined to date_3m_start is last_month + 4.
C4_AnchorPlusFour ==
    Joined =>
        \A r \in Range(dates_df_merge) : r.rx_merge_date = r.last_month + 4

\* C4 as amended: the anchor month is last_month + 1, the first month of the
\* post-price window, so the quantity window of a matched row starts with
\* the post-price window.
C4_AnchorPlusOne ==
    /\ Joined =>
          \A r \in Range(dates_df_merge) : r.rx_merge_date = r.last_month + 1
    /\ Costed =>
          \A r \in Range(rx_df_merge) :
              Matched(r) => r.date_3m_start = r.last_month + 1

C4_Witness ==
    /\ Costed
    /\ \E r \in Range(rx_df_merge) : Matched(r) /\ ~IsNull(r.post_pc_price)

IsZero(x) == x = Num(0, 1)

\* C7 as claimed: a null or zero pre_pc_price (or a null post_pc_price) makes
\* perc_difference null and the cost of every matched row null.
C7_NullOrZeroGivesNull ==
    /\ Joined =>
          \A r \in Range(dates_df_merge) :
              (IsNull(r.pre_pc_price) \/ IsZero(r.pre_pc_price)
                  \/ IsNull(r.post_pc_price)) => IsNull(r.perc_difference)
    /\ Costed =>
          \A r \in Range(rx_df_merge) :
              (Matched(r) /\ (IsNull(r.pre_pc_price) \/ IsZero(r.pre_pc_price)
                                \/ IsNull(r.post_pc_price)))
                  => IsNull(r.additional_cost_3_m)

\* C7 as amended: a null pre_pc_price or post_pc_price makes perc_difference
\* null and the cost of every matched row null; a pre_pc_price of 0 with a
\* positive post_pc_price makes perc_difference +inf and the cost the number
\* 0.01 * (roll_3m_quantity / unit_qty) * post_pc_price.
C7_NullGivesNull ==
    /\ Joined =>
          \A r \in Range(dates_df_merge) :
              /\ (IsNull(r.pre_pc_price) \/ IsNull(r.post_pc_price))
                    => IsNull(r.perc_difference)
              /\ (IsZero(r.pre_pc_price) /\ FPositive(r.post_pc_price))
                    => r.perc_difference = Inf(1)
    /\ Costed =>
          \A r \in Range(rx_df_merge) :
              /\ (Matched(r) /\ (IsNull(r.pre_pc_price)
                                   \/ IsNull(r.post_pc_price)))
                    => IsNull(r.additional_cost_3_m)
              /\ (Matched(r) /\ IsZero(r.pre_pc_price)
                    /\ FPositive(r.post_pc_price))
                    => /\ r.unit_qty.k = "num"
                       /\ r.additional_cost_3_m =
                             Num(r.roll_3m_quantity * r.unit_qty.d
                                   * r.post_pc_price.n,
                                 100 * r.unit_qty.n * r.post_pc_price.d)

\* A matched cost row of an episode with exactly one of its prices null.
C7_Witness ==
    /\ Costed
    /\ \E r \in Range(rx_df_merge) :
          /\ Matched(r)
          /\ IsNull(r.pre_pc_price) # IsNull(r.post_pc_price)
          /\ IsNull(r.additional_cost_3_m)

\* The rows of the cost table for one quantity row.
CostRows(q) ==
    {i \in 1..Len(rx_df_merge) :
        /\ rx_df_merge[i].bnf_code = q.bnf_code
        /\ rx_df_merge[i].date_3m_start = q.date_3m_start}

\* The sum of the costs of the rows I of the cost table that are not null.
RECURSIVE SumOfCosts(_)
SumOfCosts(I) ==
    IF I = {} THEN Num(0, 1)
    ELSE LET i == SetMax(I)
             c == rx_df_merge[i].additional_cost_3_m
         IN IF IsNull(c) THEN SumOfCosts(I \ {i})
            ELSE FAdd(c, SumOfCosts(I \ {i}))

\* C8: the cost table has every row of the truncated quantity table and no
\* other key; a cost is not null only on a row that an episode with the same
\* bnf_code and anchor month matched, both of whose prices are not null; the
\* monthly total is the sum of the month's non-null costs, 0 when none.
C8_RightJoin ==
    /\ Costed =>
          /\ \A q \in Range(rx_df) :
                \E i \in CostRows(q) :
                   rx_df_merge[i].roll_3m_quantity = q.roll_3m_quantity
          /\ \A r \in Range(rx_df_merge) :
                /\ \E q \in Range(rx_df) :
                      /\ q.bnf_code = r.bnf_code
                      /\ q.date_3m_start = r.date_3m_start
                      /\ q.roll_3m_quantity = r.roll_3m_quantity
                /\ ~IsNull(r.additional_cost_3_m) =>
                      /\ ~IsNull(r.pre_pc_price)
                      /\ ~IsNull(r.post_pc_price)
                      /\ \E e \in Range(dates_df_merge) :
                            /\ e.bnf_code = r.bnf_code
                            /\ e.rx_merge_date = r.date_3m_start
                            /\ e.vmpp = r.vmpp
                            /\ e.last_month = r.last_month
                            /\ e.pre_pc_price = r.pre_pc_price
                            /\ e.post_pc_price = r.post_pc_price
    /\ pc = "done" =>
          /\ {t.date_3m_start : t \in Range(rx_sum_df)}
                = {q.date_3m_start : q \in Range(rx_df)}
          /\ \A i, j \in 1..Len(rx_sum_df) :
                i # j => rx_sum_df[i].date_3m_start # rx_sum_df[j].date_3m_start
          /\ \A t \in Range(rx_sum_df) :
                t.total = SumOfCosts({i \in 1..Len(rx_df_merge) :
                              rx_df_merge[i].date_3m_start = t.date_3m_start})

\* A finished run with a quantity row no episode matched, a row with a
\* cost, a month that totals 0 and a month that does not.
C8_Witness ==
    /\ pc = "done"
    /\ \E r \in Range(rx_df_merge) : ~Matched(r)
    /\ \E r \in Range(rx_df_merge) : ~IsNull(r.additional_cost_3_m)
    /\ \E t \in Range(rx_sum_df) : IsZero(t.total)
    /\ \E t \in Range(rx_sum_df) : ~IsZero(t.total)

\* C10: every (bnf_code, date_3m_start) row of the quantity table has exactly
\* one row in the cost table.
C10_OneRowPerWindow ==
    Costed => \A q \in Range(rx_df) : Cardinality(CostRows(q)) = 1

====
